---- MODULE Spec2Model ----
(***************************************************************************)
(* State-machine model of packages/superset-ui-connection/src/             *)
(* SupersetClient.ts: the SupersetClient class (CSRF-token life cycle, the *)
(* authentication gate in front of get/post, URL resolution) and the       *)
(* module-level singleton behind PublicAPI.                                *)
(*                                                                         *)
(* JavaScript values are records [t, s]: t is the typeof-like tag and s    *)
(* the text as a sequence of atoms.  An atom is either the one-character   *)
(* string "/" or a non-empty chunk of text holding no "/", so slicing one  *)
(* trailing or leading "/" off a text is slicing one atom off s.           *)
(*                                                                         *)
(* callApi (./callApi) is the transport: it is handed the request and      *)
(* returns a promise that a later step fulfils or rejects.                 *)
(***************************************************************************)
EXTENDS Integers, Sequences, FiniteSets, TLC

VARIABLES
    singletonClient,  \* line 188: 0 is undefined, else an index into clients
    clients,          \* every SupersetClient constructed so far
    promises,         \* every csrfPromise object created so far
    calls,            \* get/post/init calls that returned a promise
    lastCall,         \* the latest PublicAPI call: its name, the instance held, what it threw
    probe,            \* SpecUrl only: the arguments given to getUrl
    answer            \* SpecUrl only: what getUrl returned for probe

vars == <<singletonClient, clients, promises, calls, lastCall, probe, answer>>

----------------------------------------------------------------------------
(* Bounds *)

MaxClients == 2     \* Spec: clients configure constructs
MaxForwarded == 1   \* Spec: calls PublicAPI forwards to the instance
MaxCalls == 3       \* SpecClient: calls made on the client
MaxLen == 2         \* SpecUrl: atoms in a host or an endpoint
MaxLiveCalls == 2   \* SpecLive: calls made on the client

----------------------------------------------------------------------------
(* JavaScript values *)

Undefined == [t |-> "undefined", s |-> <<>>]
Null == [t |-> "null", s |-> <<>>]
Absent == [t |-> "absent", s |-> <<>>]
True == [t |-> "boolean", s |-> <<"true">>]
Str(atoms) == [t |-> "string", s |-> atoms]
Num(digits) == [t |-> "number", s |-> <<digits>>]
ErrorObject(message) == [t |-> "error_object", s |-> message]
TypeError == [t |-> "TypeError", s |-> <<"Cannot read property 'csrf_token' of null">>]
NoError == [t |-> "undefined", s |-> <<>>]
ConfigureError ==
    [t |-> "Error",
     s |-> <<"You must call SupersetClient.configure(...) before calling other methods">>]

typeof(x) == IF x.t = "null" THEN "object" ELSE x.t

\* ToBoolean, as applied by || and !
Truthy(x) ==
    CASE x.t \in {"undefined", "null"} -> FALSE
      [] x.t = "string" -> x.s # <<>>
      [] x.t = "number" -> x.s # <<"0">>
      [] x.t = "boolean" -> x = True
      [] OTHER -> TRUE

Or(a, b) == IF Truthy(a) THEN a ELSE b

\* a default parameter value applies to undefined only
Default(x, d) == IF x = Undefined THEN d ELSE x

\* String.prototype.slice(begin, end)
slice(str, begin, end) ==
    LET len == Len(str)
        from == IF begin < 0 THEN (IF len + begin < 0 THEN 0 ELSE len + begin)
                ELSE (IF begin > len THEN len ELSE begin)
        to == IF end < 0 THEN (IF len + end < 0 THEN 0 ELSE len + end)
              ELSE (IF end > len THEN len ELSE end)
    IN  IF from >= to THEN <<>> ELSE SubSeq(str, from + 1, to)

HeaderNames == {"X-CSRFToken", "Accept"}
NoHeaders == [h \in HeaderNames |-> Absent]

\* { ...a, ...b }
Spread(a, b) == [h \in HeaderNames |-> IF b[h] # Absent THEN b[h] ELSE a[h]]

----------------------------------------------------------------------------
(* SupersetClient.getUrl, lines 170-185 *)

\* faulty variant: every slash of the host and the endpoint is removed
getUrlStripAll(self, args) ==
    IF typeof(args.url) = "string" THEN args.url.s
    ELSE LET host == Or(args.host, self.host).s
             endpoint == Default(args.endpoint, Str(<<>>)).s
             cleanHost == SelectSeq(host, LAMBDA a : a # "/")
         IN  self.protocol.s \o <<"/", "/">> \o cleanHost \o <<"/">>
                 \o SelectSeq(endpoint, LAMBDA a : a # "/")

getUrl(self, args) ==
    IF typeof(args.url) = "string" THEN args.url.s
    ELSE LET host == Or(args.host, self.host).s
             endpoint == Default(args.endpoint, Str(<<>>)).s
             cleanHost == IF slice(host, -1, Len(host)) = <<"/">>
                          THEN slice(host, 0, -1) ELSE host
         IN  self.protocol.s \o <<"/", "/">> \o cleanHost \o <<"/">>
                 \o (IF Len(endpoint) > 0 /\ endpoint[1] = "/"
                     THEN slice(endpoint, 1, Len(endpoint)) ELSE endpoint)

UrlArgs(host, endpoint, url) == [host |-> host, endpoint |-> endpoint, url |-> url]

----------------------------------------------------------------------------
(* SupersetClient.constructor, lines 36-63 *)

TokenA == Str(<<"tokA">>)
TokenB == Str(<<"tokB">>)
EmptyToken == Str(<<>>)

\* The ClientConfig objects given to configure.
Configs ==
    { [protocol |-> Undefined, host |-> Undefined, headers |-> NoHeaders,
       mode |-> Undefined, timeout |-> Undefined, credentials |-> Undefined,
       csrfToken |-> Undefined],
      [protocol |-> Str(<<"https:">>), host |-> Str(<<"example.com", "/">>),
       headers |-> [NoHeaders EXCEPT !["Accept"] = Str(<<"json">>)],
       mode |-> Str(<<"cors">>), timeout |-> Num("5000"),
       credentials |-> Str(<<"include">>), csrfToken |-> EmptyToken],
      [protocol |-> Undefined, host |-> Undefined, headers |-> NoHeaders,
       mode |-> Undefined, timeout |-> Undefined, credentials |-> Undefined,
       csrfToken |-> TokenA] }

NoTokenMessage ==
    "SupersetClient has no CSRF token, ensure it is initialized or\n      try logging into the Superset instance at "

Rejected(payload) == [state |-> "rejected", value |-> payload]
Fulfilled(value) == [state |-> "fulfilled", value |-> value]
Pending == [state |-> "pending", value |-> Undefined]

\* lines 45-51: the fields as stored before the csrfPromise is made
constructorFields(config, pid) ==
    [headers |-> config.headers,
     host |-> Default(config.host, Str(<<"localhost">>)),
     mode |-> Default(config.mode, Str(<<"same-origin">>)),
     timeout |-> config.timeout,
     protocol |-> Default(config.protocol, Str(<<"http:">>)),
     credentials |-> config.credentials,
     csrfToken |-> config.csrfToken,
     csrfPromise |-> pid,
     firstPromise |-> pid,             \* history: the promise the constructor made
     configToken |-> config.csrfToken] \* history: the csrfToken of the config

\* the client as the constructor leaves it; pid names its csrfPromise
constructor(config, pid) ==
    LET self == constructorFields(config, pid)
    IN  IF typeof(self.csrfToken) = "string"
        THEN [self EXCEPT !.headers =
                 Spread(self.headers, [NoHeaders EXCEPT !["X-CSRFToken"] = self.csrfToken])]
        ELSE self

\* faulty variant: the promise is resolved whatever the token is
constructorPromiseResolved(config) == Fulfilled(config.csrfToken)

\* faulty variant: without a token the promise is one that never settles
constructorPromisePending(config) ==
    IF typeof(config.csrfToken) = "string"
    THEN Fulfilled(config.csrfToken)
    ELSE Pending

\* the csrfPromise the constructor leaves in the field, lines 52-62
constructorPromise(config) ==
    LET self == constructorFields(config, 0)
    IN  IF typeof(self.csrfToken) = "string"
        THEN Fulfilled(self.csrfToken)
        ELSE Rejected(ErrorObject(<<NoTokenMessage>>
                 \o getUrl(self, UrlArgs(Undefined, Str(<<"/", "login">>), Undefined))))

----------------------------------------------------------------------------
(* Requests and what callApi is handed *)

\* The RequestConfig objects given to get: the instance's defaults apply.
GetRequests ==
    { [host |-> Undefined, endpoint |-> Str(<<"/", "api">>), url |-> Undefined,
       headers |-> NoHeaders, credentials |-> Undefined, mode |-> Undefined,
       timeout |-> Undefined] }

\* The RequestConfig objects given to post: every field is supplied.
PostRequests ==
    { [host |-> Str(<<"other", "/">>), endpoint |-> Str(<<"api">>),
       url |-> Str(<<"http:", "/", "/", "full", "/", "url">>),
       headers |-> [NoHeaders EXCEPT !["X-CSRFToken"] = Str(<<"mine">>)],
       credentials |-> Str(<<"omit">>), mode |-> Str(<<"no-cors">>),
       timeout |-> Num("0")] }

NoRequestConfig ==
    [host |-> Undefined, endpoint |-> Undefined, url |-> Undefined,
     headers |-> NoHeaders, credentials |-> Undefined, mode |-> Undefined,
     timeout |-> Undefined]

NoRequest ==
    [method |-> "none", url |-> <<>>, headers |-> NoHeaders,
     credentials |-> Undefined, mode |-> Undefined, timeout |-> Undefined]

TokenEndpoint == Str(<<"superset", "/", "csrf_token", "/">>)

\* lines 91-101 and 119-130: the argument of callApi (body, parseMethod,
\* signal, postPayload and stringify are passed through untouched)
businessRequest(self, method, request) ==
    [method |-> method,
     credentials |-> Or(request.credentials, self.credentials),
     headers |-> Spread(self.headers, request.headers),
     mode |-> Or(request.mode, self.mode),
     timeout |-> Or(request.timeout, self.timeout),
     url |-> getUrl(self, UrlArgs(request.host, request.endpoint, request.url))]

\* lines 143-151: the argument of callApi for the token fetch
tokenRequest(self) ==
    [method |-> "GET",
     credentials |-> self.credentials,
     headers |-> Spread(self.headers, NoHeaders),
     mode |-> self.mode,
     timeout |-> self.timeout,
     url |-> getUrl(self, UrlArgs(Undefined, TokenEndpoint, Undefined))]

\* What the transport can answer to a token fetch: a response whose json is
\* not an object, is null, or is an object with some csrf_token; or a failure.
Json(type, token) == [t |-> type, csrf_token |-> token]
TransportError == [t |-> "transport_error", s |-> <<"status 403">>]
NumberToken == Num("5")
TokenResponses ==
    { [ok |-> TRUE, json |-> j, error |-> NoError] :
        j \in { Json("string", Undefined), Json("null", Undefined) }
              \cup { Json("object", tok) :
                       tok \in {Undefined, Null, EmptyToken, TokenB, NumberToken} } }
    \cup { [ok |-> FALSE, json |-> Json("undefined", Undefined), error |-> TransportError] }

BusinessResponse == [t |-> "response", s |-> <<"200">>]
BusinessOutcomes == { Fulfilled(BusinessResponse), Rejected(TransportError) }

----------------------------------------------------------------------------
(* SupersetClient methods *)

\* faulty variant: !!this.csrfToken, which takes the empty token for none
isAuthenticatedTruthy(self) == Truthy(self.csrfToken)

\* lines 73-76
isAuthenticated(self) == self.csrfToken # Null /\ self.csrfToken # Undefined

\* faulty variant: the promise the constructor made, not the current field
ensureAuthFirst(c) == clients[c].firstPromise

\* lines 134-136
ensureAuth(c) == clients[c].csrfPromise

\* faulty variant: the callback runs on rejection too, as with finally
thenRunsOnSettle(promise) == promise.state # "pending"

\* Promise.prototype.then with one callback, lines 90, 118 and 152: the
\* callback runs when the promise is fulfilled, a rejection passes through
thenRuns(promise) == promise.state = "fulfilled"

\* An entry of calls.  promise is the csrfPromise the call chained on (get,
\* post) or returned: init returns the field itself when it does not fetch
\* (stage "returned"), and the async getCSRFToken returns a promise that
\* settles as the csrfPromise it made does.  request is what the call has
\* handed to callApi, NoRequest while it has handed nothing.
Call(op, c, arg, req, pid, request, stage) ==
    [op |-> op, client |-> c, force |-> arg, config |-> req, promise |-> pid,
     request |-> request, stage |-> stage, value |-> Undefined]

\* faulty variant: the fetch is started but the csrfPromise field keeps the
\* promise it held
getCSRFTokenKeepsPromise(c, force) ==
    /\ clients' = [clients EXCEPT ![c].csrfToken = Undefined]
    /\ promises' = Append(promises, Pending)
    /\ calls' = Append(calls, Call("init", c, force, NoRequestConfig, Len(promises) + 1,
                                   tokenRequest(clients[c]), "inflight"))

\* lines 138-168, the synchronous part: the token is cleared, the fetch is
\* handed to the transport and its promise replaces the csrfPromise field
getCSRFToken(c, force) ==
    /\ clients' = [clients EXCEPT ![c].csrfToken = Undefined,
                                  ![c].csrfPromise = Len(promises) + 1]
    /\ promises' = Append(promises, Pending)
    /\ calls' = Append(calls, Call("init", c, force, NoRequestConfig, Len(promises) + 1,
                                   tokenRequest(clients[c]), "inflight"))

\* faulty variant: force is not looked at
initIgnoresForce(c, force) ==
    IF isAuthenticated(clients[c])
    THEN /\ calls' = Append(calls, Call("init", c, force, NoRequestConfig,
                                        clients[c].csrfPromise, NoRequest, "returned"))
         /\ UNCHANGED <<clients, promises>>
    ELSE getCSRFToken(c, force)

\* faulty variant: the token is fetched even when authenticated
initAlwaysFetches(c, force) == getCSRFToken(c, force)

\* faulty variant: when authenticated, a new promise resolved with the token
\* is returned and kept instead of the one the field holds
initReturnsNewPromise(c, force) ==
    IF isAuthenticated(clients[c]) /\ ~force
    THEN /\ clients' = [clients EXCEPT ![c].csrfPromise = Len(promises) + 1]
         /\ promises' = Append(promises, Fulfilled(clients[c].csrfToken))
         /\ calls' = Append(calls, Call("init", c, force, NoRequestConfig,
                                        Len(promises) + 1, NoRequest, "returned"))
    ELSE getCSRFToken(c, force)

\* lines 65-71
init(c, force) ==
    IF isAuthenticated(clients[c]) /\ ~force
    THEN /\ calls' = Append(calls, Call("init", c, force, NoRequestConfig,
                                        clients[c].csrfPromise, NoRequest, "returned"))
         /\ UNCHANGED <<clients, promises>>
    ELSE getCSRFToken(c, force)

\* lines 78-90 and 105-118, the synchronous part of get and post: the call
\* chains on the promise ensureAuth returns
get(c, request) ==
    /\ calls' = Append(calls, Call("get", c, FALSE, request, ensureAuth(c),
                                   NoRequest, "gate"))
    /\ UNCHANGED <<clients, promises>>

post(c, request) ==
    /\ calls' = Append(calls, Call("post", c, FALSE, request, ensureAuth(c),
                                   NoRequest, "gate"))
    /\ UNCHANGED <<clients, promises>>

----------------------------------------------------------------------------
(* Continuations: the callbacks chained on promises, run as microtasks *)

\* a get/post call whose chained callback or rejection is ready to run
ReactionReady(k) ==
    /\ calls[k].op \in {"get", "post"}
    /\ calls[k].stage = "gate"
    /\ promises[calls[k].promise].state # "pending"

\* lines 90-102 and 118-131: the promise the call chained on has settled; on
\* fulfilment the request is built from the client's fields as they are now
\* and handed to the transport, on rejection the call rejects with the payload
gateSettled(k) ==
    /\ ReactionReady(k)
    /\ LET call == calls[k]
           promise == promises[call.promise]
       IN  calls' = [calls EXCEPT ![k] =
               IF thenRuns(promise)
               THEN [call EXCEPT !.stage = "inflight",
                                 !.request = businessRequest(clients[call.client],
                                     IF call.op = "get" THEN "GET" ELSE "POST",
                                     call.config)]
               ELSE [call EXCEPT !.stage = "rejected", !.value = promise.value]]
    /\ UNCHANGED <<singletonClient, clients, promises, lastCall, probe, answer>>

\* faulty variant: the token is stored but not merged into the headers
csrfThenNoHeader(self, response) ==
    IF typeof(response.json) = "object" /\ response.json.t = "null"
    THEN [self |-> self, promise |-> Rejected(TypeError)]
    ELSE LET stored == IF typeof(response.json) = "object"
                       THEN [self EXCEPT !.csrfToken = response.json.csrf_token]
                       ELSE self
         IN  [self |-> stored,
              promise |-> IF ~isAuthenticated(stored)
                          THEN Rejected(ErrorObject(<<"Failed to fetch CSRF token">>))
                          ELSE Fulfilled(stored.csrfToken)]

\* lines 152-165: the callback chained on the token fetch.  Reading
\* csrf_token of a null json throws, which rejects the promise.
csrfThen(self, response) ==
    IF typeof(response.json) = "object" /\ response.json.t = "null"
    THEN [self |-> self, promise |-> Rejected(TypeError)]
    ELSE LET stored == IF typeof(response.json) = "object"
                       THEN [self EXCEPT !.csrfToken = response.json.csrf_token]
                       ELSE self
             merged == IF typeof(response.json) = "object"
                          /\ typeof(stored.csrfToken) = "string"
                       THEN [stored EXCEPT
                                !.headers = Spread(stored.headers,
                                    [NoHeaders EXCEPT !["X-CSRFToken"] = stored.csrfToken])]
                       ELSE stored
         IN  [self |-> merged,
              promise |-> IF ~isAuthenticated(merged)
                          THEN Rejected(ErrorObject(<<"Failed to fetch CSRF token">>))
                          ELSE Fulfilled(merged.csrfToken)]

\* The transport settles only once the microtasks of the current task are done.
MicrotasksDone == \A k \in 1..Len(calls) : ~ReactionReady(k)

\* faulty variant: the callback writes to the instance the module holds
\* rather than to the one that started the fetch
tokenFetchSettledOnSingleton(k, response) ==
    /\ MicrotasksDone
    /\ calls[k].op = "init"
    /\ calls[k].stage = "inflight"
    /\ LET c == IF singletonClient # 0 THEN singletonClient ELSE calls[k].client
           after == csrfThen(clients[c], response)
       IN  IF response.ok
           THEN /\ clients' = [clients EXCEPT ![c] = after.self]
                /\ promises' = [promises EXCEPT ![calls[k].promise] = after.promise]
           ELSE /\ promises' = [promises EXCEPT ![calls[k].promise] = Rejected(response.error)]
                /\ UNCHANGED clients
    /\ calls' = [calls EXCEPT ![k].stage = "settled"]
    /\ UNCHANGED <<singletonClient, lastCall, probe, answer>>

\* lines 143-165: the transport answers a token fetch
tokenFetchSettled(k, response) ==
    /\ MicrotasksDone
    /\ calls[k].op = "init"
    /\ calls[k].stage = "inflight"
    /\ LET c == calls[k].client
           after == csrfThen(clients[c], response)
       IN  IF response.ok
           THEN /\ clients' = [clients EXCEPT ![c] = after.self]
                /\ promises' = [promises EXCEPT ![calls[k].promise] = after.promise]
           ELSE /\ promises' = [promises EXCEPT ![calls[k].promise] = Rejected(response.error)]
                /\ UNCHANGED clients
    /\ calls' = [calls EXCEPT ![k].stage = "settled"]
    /\ UNCHANGED <<singletonClient, lastCall, probe, answer>>

\* lines 91 and 119: the transport answers a business request.  The answer
\* settles the promise get/post returned and touches no field of the client.
businessSettled(k, outcome) ==
    /\ MicrotasksDone
    /\ calls[k].op \in {"get", "post"}
    /\ calls[k].stage = "inflight"
    /\ calls' = [calls EXCEPT ![k].stage = outcome.state, ![k].value = outcome.value]
    /\ UNCHANGED <<singletonClient, clients, promises, lastCall, probe, answer>>

----------------------------------------------------------------------------
(* The singleton and PublicAPI, lines 188-212 *)

\* faulty variant: returns false instead of throwing
hasInstanceReturnsFalse(maybeClient) == IF maybeClient = 0 THEN "false" ELSE "true"

\* lines 190-196
hasInstance(maybeClient) == IF maybeClient = 0 THEN "throws" ELSE "true"

ApiCall(api, error) == [api |-> api, instance |-> singletonClient, threw |-> error]

\* hasInstance(singletonClient) && ... with nothing to forward to: the call
\* throws, or (were hasInstance to return false) evaluates to false
NotForwarded(api) ==
    /\ hasInstance(singletonClient) # "true"
    /\ lastCall' = ApiCall(api, IF hasInstance(singletonClient) = "throws"
                                THEN ConfigureError ELSE NoError)
    /\ UNCHANGED <<singletonClient, clients, promises, calls, probe, answer>>

\* lines 199-203
PublicAPI_configure(config) ==
    /\ Len(clients) < MaxClients
    /\ clients' = Append(clients, constructor(config, Len(promises) + 1))
    /\ promises' = Append(promises, constructorPromise(config))
    /\ singletonClient' = Len(clients) + 1
    /\ lastCall' = ApiCall("configure", NoError)
    /\ UNCHANGED <<calls, probe, answer>>

\* line 204
PublicAPI_get(request) ==
    \/ NotForwarded("get")
    \/ /\ hasInstance(singletonClient) = "true"
       /\ Len(calls) < MaxForwarded
       /\ get(singletonClient, request)
       /\ lastCall' = ApiCall("get", NoError)
       /\ UNCHANGED <<singletonClient, probe, answer>>

\* line 205
PublicAPI_init(force) ==
    \/ NotForwarded("init")
    \/ /\ hasInstance(singletonClient) = "true"
       /\ Len(calls) < MaxForwarded
       /\ init(singletonClient, force)
       /\ lastCall' = ApiCall("init", NoError)
       /\ UNCHANGED <<singletonClient, probe, answer>>

\* line 206
PublicAPI_isAuthenticated ==
    \/ NotForwarded("isAuthenticated")
    \/ /\ hasInstance(singletonClient) = "true"
       /\ lastCall' = ApiCall("isAuthenticated", NoError)
       /\ UNCHANGED <<singletonClient, clients, promises, calls, probe, answer>>

\* line 207
PublicAPI_post(request) ==
    \/ NotForwarded("post")
    \/ /\ hasInstance(singletonClient) = "true"
       /\ Len(calls) < MaxForwarded
       /\ post(singletonClient, request)
       /\ lastCall' = ApiCall("post", NoError)
       /\ UNCHANGED <<singletonClient, probe, answer>>

\* line 208
PublicAPI_reAuthenticate ==
    \/ NotForwarded("reAuthenticate")
    \/ /\ hasInstance(singletonClient) = "true"
       /\ Len(calls) < MaxForwarded
       /\ init(singletonClient, TRUE)
       /\ lastCall' = ApiCall("reAuthenticate", NoError)
       /\ UNCHANGED <<singletonClient, probe, answer>>

\* lines 209-211
PublicAPI_reset ==
    /\ singletonClient' = 0
    /\ lastCall' = ApiCall("reset", NoError)
    /\ UNCHANGED <<clients, promises, calls, probe, answer>>

\* line 214: the class is exported too; its methods called on an instance
SupersetClient_get(c, request) ==
    /\ Len(calls) < MaxCalls
    /\ get(c, request)
    /\ UNCHANGED <<singletonClient, lastCall, probe, answer>>

SupersetClient_post(c, request) ==
    /\ Len(calls) < MaxCalls
    /\ post(c, request)
    /\ UNCHANGED <<singletonClient, lastCall, probe, answer>>

SupersetClient_init(c, force) ==
    /\ Len(calls) < MaxCalls
    /\ init(c, force)
    /\ UNCHANGED <<singletonClient, lastCall, probe, answer>>

----------------------------------------------------------------------------
(* The specification of the client and the singleton *)

NoCall == [api |-> "none", instance |-> 0, threw |-> NoError]
NotCalled == [called |-> FALSE, url |-> <<>>]
NoProbe == [self |-> [host |-> Undefined, protocol |-> Undefined],
            args |-> UrlArgs(Undefined, Undefined, Undefined)]

\* the module as loaded: no instance is configured
Init ==
    /\ singletonClient = 0
    /\ clients = <<>>
    /\ promises = <<>>
    /\ calls = <<>>
    /\ lastCall = NoCall
    /\ probe = NoProbe
    /\ answer = NotCalled

\* the callbacks and the transport's answers to token fetches
Continue ==
    \/ \E k \in 1..Len(calls) : gateSettled(k)
    \/ \E k \in 1..Len(calls), response \in TokenResponses : tokenFetchSettled(k, response)

Next ==
    \/ \E config \in Configs : PublicAPI_configure(config)
    \/ \E request \in GetRequests : PublicAPI_get(request)
    \/ \E force \in BOOLEAN : PublicAPI_init(force)
    \/ PublicAPI_isAuthenticated
    \/ \E request \in PostRequests : PublicAPI_post(request)
    \/ PublicAPI_reAuthenticate
    \/ PublicAPI_reset
    \/ Continue

Spec == Init /\ [][Next]_vars

\* one SupersetClient just constructed, its methods called on the instance
InitClient ==
    /\ singletonClient = 0
    /\ \E config \in Configs :
          /\ clients = <<constructor(config, 1)>>
          /\ promises = <<constructorPromise(config)>>
    /\ calls = <<>>
    /\ lastCall = NoCall
    /\ probe = NoProbe
    /\ answer = NotCalled

NextClient ==
    \/ \E request \in GetRequests : SupersetClient_get(1, request)
    \/ \E request \in PostRequests : SupersetClient_post(1, request)
    \/ \E force \in BOOLEAN : SupersetClient_init(1, force)
    \/ Continue

SpecClient == InitClient /\ [][NextClient]_vars

----------------------------------------------------------------------------
(* The client with a transport that answers: every callback that is ready  *)
(* runs (the microtask queue is drained), and every request handed to the  *)
(* transport, token fetch or business request, is eventually answered.     *)

NextLive ==
    \/ /\ Len(calls) < MaxLiveCalls
       /\ \E request \in GetRequests : SupersetClient_get(1, request)
    \/ /\ Len(calls) < MaxLiveCalls
       /\ \E request \in PostRequests : SupersetClient_post(1, request)
    \/ /\ Len(calls) < MaxLiveCalls
       /\ \E force \in BOOLEAN : SupersetClient_init(1, force)
    \/ Continue
    \/ \E k \in 1..Len(calls), outcome \in BusinessOutcomes : businessSettled(k, outcome)

SpecLive ==
    /\ InitClient
    /\ [][NextLive]_vars
    /\ \A k \in 1..MaxLiveCalls :
          /\ WF_vars(k \in 1..Len(calls) /\ gateSettled(k))
          /\ WF_vars(k \in 1..Len(calls)
                       /\ \E response \in TokenResponses : tokenFetchSettled(k, response))
          /\ WF_vars(k \in 1..Len(calls)
                       /\ \E outcome \in BusinessOutcomes : businessSettled(k, outcome))

----------------------------------------------------------------------------
(* getUrl on its own: every host, endpoint and url of up to MaxLen atoms *)

Atoms == {"a", "/"}
Texts == UNION { [1..n -> Atoms] : n \in 0..MaxLen }
Probes ==
    [self : [host : {Str(t) : t \in Texts},
             protocol : {Str(<<"http:">>), Str(<<"https:">>)}],
     args : [host : {Undefined} \cup {Str(t) : t \in Texts},
             endpoint : {Undefined} \cup {Str(t) : t \in Texts},
             url : {Undefined, Str(<<>>), Str(<<"a", "/">>)}]]

InitUrl ==
    /\ singletonClient = 0
    /\ clients = <<>>
    /\ promises = <<>>
    /\ calls = <<>>
    /\ lastCall = NoCall
    /\ probe \in Probes
    /\ answer = NotCalled

getUrlCalled ==
    /\ ~answer.called
    /\ answer' = [called |-> TRUE, url |-> getUrl(probe.self, probe.args)]
    /\ UNCHANGED <<singletonClient, clients, promises, calls, lastCall, probe>>

NextUrl == getUrlCalled

SpecUrl == InitUrl /\ [][NextUrl]_vars

----------------------------------------------------------------------------
(* Vocabulary of the properties *)

Calls == 1..Len(calls)
IsRequestCall(k) == calls[k].op \in {"get", "post"}
IsInitCall(k) == calls[k].op = "init"
\* an init call that went through getCSRFToken: it handed a fetch to the transport
IsFetch(k) == IsInitCall(k) /\ calls[k].request # NoRequest
Dispatched(k) == IsRequestCall(k) /\ calls[k].request # NoRequest
GivenToken(c) == typeof(clients[c].configToken) = "string"
TokenFetches == Cardinality({k \in Calls : IsFetch(k)})
\* the step is a call of op: the log grows by that call
CallStep(op) == Len(calls') = Len(calls) + 1 /\ calls'[Len(calls')].op = op
NewCall == calls'[Len(calls')]

----------------------------------------------------------------------------
(* C1: a client constructed with no token rejects every get/post made      *)
(* before any init with the constructor's "SupersetClient has no CSRF      *)
(* token" payload, and hands no business request to the transport for it.  *)

BeforeAnyInit(k) == \A j \in 1..(k - 1) : ~(IsInitCall(j) /\ calls[j].client = calls[k].client)

C1_NoTokenRejects ==
    \A k \in Calls :
        (IsRequestCall(k) /\ ~GivenToken(calls[k].client) /\ BeforeAnyInit(k)) =>
            LET settled == promises[calls[k].promise]
            IN  /\ settled.state = "rejected"
                /\ settled.value.t = "error_object"
                /\ Head(settled.value.s) = NoTokenMessage
                /\ calls[k].request = NoRequest
                /\ calls[k].stage \in {"gate", "rejected"}
                /\ calls[k].stage = "rejected" => calls[k].value = settled.value

C1_Witness ==
    \E k \in Calls :
        /\ IsRequestCall(k) /\ ~GivenToken(calls[k].client) /\ BeforeAnyInit(k)
        /\ calls[k].stage = "rejected"
        /\ Head(calls[k].value.s) = NoTokenMessage

----------------------------------------------------------------------------
(* C2: a get/post hands its business request to the transport only after   *)
(* the csrfPromise it read from ensureAuth has been fulfilled; if that     *)
(* promise rejects, the call rejects with the same payload and no business *)
(* request is sent for it.                                                 *)

C2_GateBeforeRequest ==
    \A k \in Calls :
        IsRequestCall(k) =>
            LET awaited == promises[calls[k].promise]
            IN  /\ Dispatched(k) => awaited.state = "fulfilled"
                /\ awaited.state = "pending" => calls[k].stage = "gate"
                /\ awaited.state = "rejected" =>
                      /\ ~Dispatched(k)
                      /\ calls[k].stage \in {"gate", "rejected"}
                      /\ calls[k].stage = "rejected" => calls[k].value = awaited.value

\* a call that waited on a token fetch and was rejected with the fetch's payload
C2_Witness ==
    \E k \in Calls :
        /\ IsRequestCall(k)
        /\ calls[k].promise # clients[calls[k].client].firstPromise
        /\ calls[k].stage = "rejected"
        /\ calls[k].value = promises[calls[k].promise].value

----------------------------------------------------------------------------
(* C3: for a config supplying a token string, the empty string included,   *)
(* isAuthenticated() is true right after construction, and init() without  *)
(* force returns a promise fulfilled with that token and hands no request  *)
(* to the transport.                                                       *)

NoFetchYet(c) == \A j \in Calls : ~(IsFetch(j) /\ calls[j].client = c)
NoFetchBefore(k) ==
    \A j \in 1..(k - 1) : ~(IsFetch(j) /\ calls[j].client = calls[k].client)

C3_TokenGivenIsAuthenticated ==
    /\ \A c \in 1..Len(clients) :
          (GivenToken(c) /\ NoFetchYet(c)) => isAuthenticated(clients[c])
    /\ \A k \in Calls :
          (IsInitCall(k) /\ ~calls[k].force /\ GivenToken(calls[k].client)
               /\ NoFetchBefore(k)) =>
              /\ calls[k].request = NoRequest
              /\ promises[calls[k].promise] = Fulfilled(clients[calls[k].client].configToken)

C3_Witness ==
    \E k \in Calls :
        /\ IsInitCall(k) /\ ~calls[k].force /\ NoFetchBefore(k)
        /\ clients[calls[k].client].configToken = EmptyToken
        /\ calls[k].stage = "returned"
        /\ promises[calls[k].promise] = Fulfilled(EmptyToken)

----------------------------------------------------------------------------
(* C4: once a token fetch has succeeded with a token (a string, as         *)
(* CsrfToken is), isAuthenticated() is true, and every business request    *)
(* get or post dispatches from then on carries an X-CSRFToken header.      *)

FetchedToken(k) ==
    /\ IsFetch(k) /\ calls[k].stage = "settled"
    /\ promises[calls[k].promise].state = "fulfilled"
    /\ typeof(promises[calls[k].promise].value) = "string"
Populated(c) == \E k \in Calls : calls[k].client = c /\ FetchedToken(k)

----------------------------------------------------------------------------
(* C5: reAuthenticate(), that is init(true), hands exactly one new token   *)
(* fetch to the transport per call, whatever state the client is in.       *)

EndsWith(text, suffix) ==
    /\ Len(text) >= Len(suffix)
    /\ SubSeq(text, Len(text) - Len(suffix) + 1, Len(text)) = suffix

C5_ReAuthenticateFetchesOnce ==
    [][ (CallStep("init") /\ NewCall.force) =>
            /\ TokenFetches' = TokenFetches + 1
            /\ NewCall.request.method = "GET"
            /\ EndsWith(NewCall.request.url, TokenEndpoint.s)
            /\ NewCall.stage = "inflight" ]_vars

\* forced inits made after a failed fetch and after a successful one
C5_Witness ==
    \E i, j, k \in Calls :
        /\ i < j /\ j < k
        /\ IsFetch(i) /\ promises[calls[i].promise].state = "rejected"
        /\ IsFetch(j) /\ calls[j].force /\ promises[calls[j].promise].state = "fulfilled"
        /\ IsFetch(k) /\ calls[k].force /\ calls[k].stage = "inflight"

----------------------------------------------------------------------------
(* C6: init() without force on an authenticated client hands no token      *)
(* fetch to the transport; on a client that is not authenticated it hands  *)
(* exactly one.  So of two such calls, the second made while authenticated,*)
(* only the first fetches.                                                 *)

C6_InitFetchesOnce ==
    [][ (CallStep("init") /\ ~NewCall.force) =>
            IF isAuthenticated(clients[NewCall.client])
            THEN TokenFetches' = TokenFetches /\ NewCall.request = NoRequest
            ELSE TokenFetches' = TokenFetches + 1 ]_vars

C6_Witness ==
    \E j, k \in Calls :
        /\ j < k /\ calls[j].client = calls[k].client
        /\ IsInitCall(j) /\ ~calls[j].force /\ IsFetch(j)
        /\ IsInitCall(k) /\ ~calls[k].force /\ ~IsFetch(k)
        /\ TokenFetches = 1

----------------------------------------------------------------------------
(* C7: every PublicAPI function other than configure and reset, called     *)
(* while no instance is held (before the first configure or after a reset),*)
(* throws the configuration error and performs no client operation.        *)

RegistryFunctions == {"get", "post", "init", "isAuthenticated", "reAuthenticate"}

C7_NoInstanceThrows ==
    [][ (lastCall' # lastCall /\ lastCall'.api \in RegistryFunctions
             /\ singletonClient = 0) =>
            /\ lastCall'.threw = ConfigureError
            /\ UNCHANGED <<singletonClient, clients, promises, calls>> ]_vars

\* a call that threw after a reset, with the discarded client's fetch in flight
C7_Witness ==
    /\ singletonClient = 0
    /\ lastCall.api = "post" /\ lastCall.instance = 0 /\ lastCall.threw = ConfigureError
    /\ \E k \in Calls : IsFetch(k) /\ calls[k].stage = "inflight"

----------------------------------------------------------------------------
(* C8: an authentication failure, whether the fetch answered without a     *)
(* usable token or the fetch itself failed, is a rejected promise carrying *)
(* an {error: message} payload.                                            *)

C8_FailurePayload ==
    \A k \in Calls :
        (IsFetch(k) /\ calls[k].stage = "settled"
             /\ promises[calls[k].promise].state = "rejected") =>
            promises[calls[k].promise].value.t = "error_object"

----------------------------------------------------------------------------
(* C9: getUrl returns an explicit url unchanged; otherwise it takes the    *)
(* per-call host if one is given and the instance's host if not, removes   *)
(* exactly one trailing slash from it and exactly one leading slash from   *)
(* the endpoint, and returns protocol + "//" + host + "/" + endpoint.      *)

WithoutTrailingSlash(text) ==
    IF text # <<>> /\ text[Len(text)] = "/" THEN SubSeq(text, 1, Len(text) - 1) ELSE text
WithoutLeadingSlash(text) ==
    IF text # <<>> /\ text[1] = "/" THEN Tail(text) ELSE text

C9_ResolveUrl ==
    answer.called =>
        LET args == probe.args
            host == IF args.host \notin {Undefined, Str(<<>>)}
                    THEN args.host.s ELSE probe.self.host.s
            endpoint == IF args.endpoint = Undefined THEN <<>> ELSE args.endpoint.s
        IN  answer.url =
                IF args.url # Undefined THEN args.url.s
                ELSE probe.self.protocol.s \o <<"/", "/">> \o WithoutTrailingSlash(host)
                         \o <<"/">> \o WithoutLeadingSlash(endpoint)

\* host "a/" given per call, endpoint "/a": one slash joins them
C9_Witness ==
    /\ answer.called
    /\ probe.args = UrlArgs(Str(<<"a", "/">>), Str(<<"/", "a">>), Undefined)
    /\ probe.self.host = Str(<<"/", "/">>)
    /\ answer.url = <<"http:", "/", "/", "a", "/", "a">>

----------------------------------------------------------------------------
(* C10: a get or post made after a token fetch was started chains on the   *)
(* promise of that fetch, the latest one started, and hands no token fetch *)
(* to the transport itself.                                                *)

LatestFetch(j, c) ==
    /\ IsFetch(j) /\ calls[j].client = c
    /\ \A i \in Calls : (i > j /\ calls[i].client = c) => ~IsFetch(i)

C10_WaitsOnFetchInFlight ==
    [][ (CallStep("get") \/ CallStep("post")) =>
            /\ TokenFetches' = TokenFetches
            /\ promises' = promises
            /\ NewCall.request = NoRequest
            /\ \A j \in Calls :
                  LatestFetch(j, NewCall.client) => NewCall.promise = calls[j].promise ]_vars

C10_Witness ==
    \E j, k \in Calls :
        /\ j < k /\ LatestFetch(j, calls[k].client) /\ calls[j].stage = "inflight"
        /\ IsRequestCall(k) /\ calls[k].stage = "gate"
        /\ calls[k].promise = calls[j].promise
        /\ calls[k].promise # clients[calls[k].client].firstPromise
        /\ promises[calls[k].promise].state = "pending"

----------------------------------------------------------------------------
(* C11: of two forced init calls whose fetches overlap, each replaces the  *)
(* csrfPromise field: the field holds the promise of the second, every get *)
(* or post made afterwards chains on it, and the promise the first call    *)
(* returned is settled by the answer to the first fetch, at the step that  *)
(* answer arrives and at no other.                                         *)

ForcedFetch(k) == IsFetch(k) /\ calls[k].force

SecondFetchAuthoritative ==
    \A j, k \in Calls :
        (j < k /\ ForcedFetch(j) /\ ForcedFetch(k) /\ calls[j].client = calls[k].client
             /\ LatestFetch(k, calls[k].client)) =>
            /\ calls[j].promise # calls[k].promise
            /\ clients[calls[k].client].csrfPromise = calls[k].promise
            /\ \A m \in Calls :
                  (m > k /\ IsRequestCall(m) /\ calls[m].client = calls[k].client) =>
                      calls[m].promise = calls[k].promise

C11_SecondFetchAuthoritative ==
    [][ /\ SecondFetchAuthoritative'
        /\ \A j \in Calls :
              (IsFetch(j) /\ promises'[calls[j].promise] # promises[calls[j].promise]) =>
                  /\ calls[j].stage = "inflight"
                  /\ calls'[j].stage = "settled"
                  /\ promises[calls[j].promise] = Pending ]_vars

\* the first fetch was answered with a token while the second was in flight
\* (the token was cleared when the second started), and a get made after
\* both waits on the second
C11_Witness ==
    \E j, k, m \in Calls :
        /\ j < k /\ k < m
        /\ ForcedFetch(j) /\ ForcedFetch(k) /\ IsRequestCall(m)
        /\ calls[j].stage = "settled"
        /\ promises[calls[j].promise] = Fulfilled(TokenB)
        /\ clients[calls[j].client].csrfToken = TokenB
        /\ calls[k].stage = "inflight"
        /\ promises[calls[k].promise] = Pending
        /\ calls[m].stage = "gate"
        /\ calls[m].promise = calls[k].promise

----------------------------------------------------------------------------
(* C12: in every reachable state, whenever isAuthenticated() is true the   *)
(* instance headers hold X-CSRFToken with the current token as its value.  *)

C12_HeadersReflectToken ==
    \A c \in 1..Len(clients) :
        isAuthenticated(clients[c]) =>
            clients[c].headers["X-CSRFToken"] = clients[c].csrfToken

----------------------------------------------------------------------------
(* C13: getCSRFToken clears the token before it hands the fetch to the     *)
(* transport, so while a token fetch is outstanding isAuthenticated() is   *)
(* false: no check made during the fetch sees a token.                     *)

Outstanding(k) == IsFetch(k) /\ calls[k].stage = "inflight"

C13_NoTokenWhileFetching ==
    \A k \in Calls :
        Outstanding(k) => ~isAuthenticated(clients[calls[k].client])

----------------------------------------------------------------------------
(* C14: at the step a fetch started by getCSRFToken is answered, the       *)
(* promise that call returned is rejected with an error payload if the     *)
(* client is not authenticated then, and is otherwise fulfilled with the   *)
(* client's current token.                                                 *)

Answered(k) == Outstanding(k) /\ calls'[k].stage = "settled"

C14_SettlesAsAuthenticated ==
    [][ \A k \in Calls :
          Answered(k) =>
              LET self == clients'[calls[k].client]
                  returned == promises'[calls[k].promise]
              IN  IF ~isAuthenticated(self)
                  THEN returned.state = "rejected" /\ returned.value # Undefined
                  ELSE returned = Fulfilled(self.csrfToken) ]_vars

----------------------------------------------------------------------------
(* C15: init() without force on an authenticated client is a no-op: it     *)
(* returns the promise the csrfPromise field holds, leaves the token, the  *)
(* headers and that field (every field of the client, and every promise)   *)
(* as they were, hands nothing to the transport, and the client is still   *)
(* authenticated.                                                          *)

C15_InitNoOp ==
    [][ (CallStep("init") /\ ~NewCall.force
             /\ isAuthenticated(clients[NewCall.client])) =>
            /\ NewCall.promise = clients[NewCall.client].csrfPromise
            /\ NewCall.stage = "returned"
            /\ NewCall.request = NoRequest
            /\ clients' = clients
            /\ promises' = promises
            /\ \A k \in Calls : calls'[k] = calls[k]
            /\ isAuthenticated(clients'[NewCall.client]) ]_vars

\* init() after a fetch stored a token: the fetch's promise is returned
C15_Witness ==
    \E j, k \in Calls :
        /\ j < k /\ calls[j].client = calls[k].client
        /\ FetchedToken(j)
        /\ IsInitCall(k) /\ ~calls[k].force /\ calls[k].stage = "returned"
        /\ calls[k].promise = calls[j].promise
        /\ clients[calls[k].client].csrfPromise = calls[j].promise
        /\ clients[calls[k].client].headers["X-CSRFToken"] = TokenB

----------------------------------------------------------------------------
(* C16: no retry from Failed.  Once the token fetch the client last        *)
(* started has ended without a token, no token fetch is handed to the      *)
(* transport unless init is called, every get/post made is rejected by the *)
(* gate without a business request, and a call of init, forced or not,     *)
(* starts exactly one new fetch.                                           *)

\* the fetch the client started last has ended with a rejected promise
Failed(c) ==
    \E k \in Calls :
        /\ LatestFetch(k, c)
        /\ calls[k].stage = "settled"
        /\ promises[calls[k].promise].state = "rejected"

C16_NoRetryFromFailed ==
    [][ /\ TokenFetches' # TokenFetches => CallStep("init")
        /\ \A k \in Calls :
              (IsRequestCall(k) /\ promises[calls[k].promise].state = "rejected") =>
                  /\ ~Dispatched(k)'
                  /\ calls'[k].stage \in {"gate", "rejected"}
        /\ ((CallStep("get") \/ CallStep("post")) /\ Failed(NewCall.client)) =>
              /\ promises[NewCall.promise].state = "rejected"
              /\ TokenFetches' = TokenFetches
        /\ (CallStep("init") /\ Failed(NewCall.client)) =>
              /\ TokenFetches' = TokenFetches + 1
              /\ NewCall.stage = "inflight" ]_vars

----------------------------------------------------------------------------
(* C17: the credentials, mode and timeout handed to the transport for a    *)
(* get or post are the request's own wherever the request supplies one, a  *)
(* timeout of 0 included, and the instance's only where it supplies none.  *)

Supplied(value) == value # Undefined
Override(own, default) == IF Supplied(own) THEN own ELSE default

C17_RequestOverridesDefault ==
    \A k \in Calls :
        Dispatched(k) =>
            LET self == clients[calls[k].client]
                own == calls[k].config
                sent == calls[k].request
            IN  /\ sent.credentials = Override(own.credentials, self.credentials)
                /\ sent.mode = Override(own.mode, self.mode)
                /\ sent.timeout = Override(own.timeout, self.timeout)

----------------------------------------------------------------------------
(* C18: in every state in which no token fetch of a client is outstanding, *)
(* isAuthenticated() is true exactly when the promise the csrfPromise      *)
(* field holds is fulfilled, and it is then fulfilled with the current     *)
(* token: the gate lets get/post through exactly when authenticated.       *)

Quiescent(c) == \A k \in Calls : ~(Outstanding(k) /\ calls[k].client = c)

C18_GateAgreesWithToken ==
    \A c \in 1..Len(clients) :
        Quiescent(c) =>
            LET gate == promises[clients[c].csrfPromise]
            IN  /\ isAuthenticated(clients[c]) <=> gate.state = "fulfilled"
                /\ isAuthenticated(clients[c]) => gate.value = clients[c].csrfToken

----------------------------------------------------------------------------
(* C19: the answer to a token fetch of a client the module no longer holds *)
(* (reset, or replaced by a later configure) changes no field of any other *)
(* client, the one held now in particular, and not the promise its         *)
(* csrfPromise field holds.                                                *)

C19_DiscardedClientIsolated ==
    [][ \A k \in Calls :
          (Outstanding(k) /\ calls'[k].stage = "settled"
               /\ calls[k].client # singletonClient) =>
              \A c \in 1..Len(clients) :
                  c # calls[k].client =>
                      /\ clients'[c] = clients[c]
                      /\ promises'[clients[c].csrfPromise] = promises[clients[c].csrfPromise] ]_vars

\* the replaced client's fetch was answered with a token after the second
\* configure; the client held now is as its constructor left it
C19_Witness ==
    \E k \in Calls :
        /\ FetchedToken(k)
        /\ singletonClient # 0
        /\ calls[k].client # singletonClient
        /\ clients[calls[k].client].csrfToken = TokenB
        /\ ~isAuthenticated(clients[singletonClient])
        /\ clients[singletonClient].headers["X-CSRFToken"] = Absent
        /\ promises[clients[singletonClient].csrfPromise].state = "rejected"

----------------------------------------------------------------------------
(* C20: with a transport that answers every request, the promise every     *)
(* get, post and init call returned is eventually settled, fulfilled or    *)
(* rejected, in every interleaving: no call waits on the gate forever.     *)

\* the promise call k returned has settled
Settled(k) ==
    /\ k \in Calls
    /\ IF IsInitCall(k)
       THEN promises[calls[k].promise].state # "pending"
       ELSE calls[k].stage \in {"fulfilled", "rejected"}

C20_EveryCallSettles ==
    \A k \in 1..MaxLiveCalls : (k \in Calls) ~> Settled(k)

\* a get that waited on a fetch in flight, was let through and was answered
C20_Witness ==
    \E j, k \in Calls :
        /\ j < k /\ IsFetch(j) /\ calls[k].op = "get"
        /\ calls[k].promise = calls[j].promise
        /\ Dispatched(k)
        /\ calls[k].stage = "fulfilled"
        /\ calls[k].value = BusinessResponse

====
